---------------------------- MODULE Spec2Model ----------------------------
(***************************************************************************)
(* The message-exchange state machine of FuturisticChatWidget              *)
(* (src/src/components/FuturisticChatWidget.tsx) together with the demo    *)
(* backend route (src/unnamed/part_000).                                   *)
(*                                                                         *)
(* One mounted widget instance is modelled.  Its React state is the four   *)
(* useState cells; every invocation of the async function handleSend is a  *)
(* record of  calls  holding the values its closure captured and the await *)
(* it is suspended at.  The browser's event loop runs one event handler or *)
(* one continuation at a time, so each action below is one such run.       *)
(***************************************************************************)
EXTENDS Integers, Sequences, FiniteSets, TLC

(***************************************************************************)
(* Bounds of the model.                                                    *)
(***************************************************************************)
\* accepted sends per behaviour
MaxSends == 2
\* Date.now() when the widget mounts, in milliseconds
MountTime == 1000
\* requests the demo backend answers per behaviour
MaxServed == 2

(***************************************************************************)
(* Text.  A string is a sequence of fragments: a typed character is a      *)
(* fragment of its own, a literal of the program is kept as one fragment.  *)
(***************************************************************************)
\* what the user can have in the input box: empty, blank, plain, padded
Drafts == { <<>>, <<" ">>, <<"h">>, <<" ", "h", " ">> }

IsWhitespace(c) == c \in {" ", "\t", "\n"}

RECURSIVE TrimStart(_)
TrimStart(s) ==
  IF s = <<>> THEN <<>>
  ELSE IF IsWhitespace(Head(s)) THEN TrimStart(Tail(s)) ELSE s

RECURSIVE TrimEnd(_)
TrimEnd(s) ==
  IF s = <<>> THEN <<>>
  ELSE IF IsWhitespace(s[Len(s)]) THEN TrimEnd(SubSeq(s, 1, Len(s) - 1)) ELSE s

\* trim as a guard on the raw text would have it: nothing is removed
TrimNothing(s) == s

\* String.prototype.trim
trim(s) == TrimEnd(TrimStart(s))

(***************************************************************************)
(* JavaScript values as far as the reply path reads them.                  *)
(***************************************************************************)
Undefined == [type |-> "undefined"]

JNull == [type |-> "null"]

JStr(s) == [type |-> "string", value |-> s]

\* an object: its own properties as a function from keys to values
JObj(f) == [type |-> "object", fields |-> f]

NoFields == [k \in {} |-> Undefined]

\* ToBoolean on the values above: undefined, null and "" are falsy
Truthy(v) ==
  CASE v.type = "string" -> v.value # <<>>
    [] v.type = "object" -> TRUE
    [] OTHER -> FALSE

\* property read obj.k on an object; a missing property reads undefined
Get(obj, k) == IF k \in DOMAIN obj.fields THEN obj.fields[k] ELSE Undefined

(***************************************************************************)
(* Literals of the widget.                                                 *)
(***************************************************************************)
\* the Markdown code fence, three backticks (the character cannot be written
\* in a string of this module)
FENCE == "[code fence]"

SAMPLE_RESPONSES ==
  << <<"Hello! I'm here to help you with any questions you might have.">>,
     <<"## Documentation\nYou can find our documentation at [docs.example.com](https://docs.example.com).">>,
     <<"Here's a code example:\n", FENCE, "js\nconst hello = () => {\n  console.log('Hello world');\n};\n", FENCE>>,
     <<"# Features\n- Easy to use\n- Customizable\n- Great support\n\nHow can I assist you further?">>,
     <<"Let me check that for you. It looks like you'll need to update your configuration settings.">> >>

\* setTimeout(resolve, 1500)
SAMPLE_DELAY == 1500

FAILURE_NOTICE == <<"Sorry, there was an error processing your message.">>

NO_RESPONSE == <<"No response">>

DefaultHeaders == ("Content-Type" :> "application/json")

(***************************************************************************)
(* HTTP.  A body is text that either parses as JSON (kept as the value it  *)
(* denotes) or does not.                                                   *)
(***************************************************************************)
InvalidBody == [kind |-> "invalid"]

JsonBody(v) == [kind |-> "json", data |-> v]

Response(status, body) == [status |-> status, body |-> body]

\* Date.prototype.toISOString of the server's clock
toISOString(t) == <<"ISO-8601:", ToString(t)>>

(***************************************************************************)
(* The demo backend, src/unnamed/part_000.                                 *)
(***************************************************************************)
\* responses[Math.floor(Math.random() * responses.length)], r the index drawn
generateResponse(message, r) ==
  LET responses ==
        << <<"Thank you for your message: \"">> \o message \o <<"\". I'm here to help!">>,
           <<"# Response to your query\n\nYou asked: \"">> \o message
              \o <<"\"\n\nHere's what I found:">>,
           <<"## Interesting question!\n\nRegarding \"">> \o message
              \o <<"\", here are some key points:\n\n- Point 1\n- Point 2\n- Point 3">>,
           <<"Let me help you with \"">> \o message
              \o <<"\"\n\n", FENCE, "js\n// Here's a code example\nconst answer = \"This is a sample response\";\nconsole.log(answer);\n", FENCE>> >>
  IN responses[r + 1]

\* the number of templates generateResponse draws from
BackendTemplates == 4

\* a value inside a template literal: ToString of it
TemplateString(v) ==
  CASE v.type = "string" -> v.value
    [] v.type = "object" -> <<"[object Object]">>
    [] OTHER -> <<v.type>>

\* const { message } = body, for a body that is not null: a property read,
\* which on a string finds no such property
Destructure(body, k) == IF body.type = "object" THEN Get(body, k) ELSE Undefined

\* a route that tests the field for presence: if (message === undefined)
POSTPresenceTested(requestBody, r, t) ==
  IF requestBody.kind = "invalid" \/ requestBody.data.type = "null"
  THEN Response(500, JsonBody(JObj("error" :> JStr(<<"Failed to process request">>))))
  ELSE LET message == Destructure(requestBody.data, "message") IN
       IF message = Undefined
       THEN Response(400, JsonBody(JObj("error" :> JStr(<<"Message is required">>))))
       ELSE Response(200, JsonBody(JObj(
              "response" :> JStr(generateResponse(TemplateString(message), r))
              @@ "timestamp" :> JStr(toISOString(t)))))

\* export async function POST(request); r is the random draw, t the server clock
POST(requestBody, r, t) ==
  IF requestBody.kind = "invalid" \/ requestBody.data.type = "null"
  THEN \* request.json() rejects, or destructuring null throws
       Response(500, JsonBody(JObj("error" :> JStr(<<"Failed to process request">>))))
  ELSE LET message == Destructure(requestBody.data, "message") IN
       IF ~Truthy(message)
       THEN Response(400, JsonBody(JObj("error" :> JStr(<<"Message is required">>))))
       ELSE Response(200, JsonBody(JObj(
              "response" :> JStr(generateResponse(TemplateString(message), r))
              @@ "timestamp" :> JStr(toISOString(t)))))

(***************************************************************************)
(* What an endpoint can answer.  "/api/chat" is the demo backend; any      *)
(* other endpoint is a server of the caller's, which answers with one of   *)
(* the shapes below (among them the demo backend's two error answers).     *)
(***************************************************************************)
DemoEndpoint == "/api/chat"

OtherEndpoint == "https://api.example.com/chat"

OtherResponses ==
  { Response(200, JsonBody(JObj("response" :> JStr(<<"h", "i">>)))),
    Response(200, JsonBody(JObj(NoFields))),
    Response(200, JsonBody(JObj("content" :> JStr(<<"o", "k">>)))),
    Response(200, JsonBody(JObj("response" :> JStr(<<"h", "i">>)
                                @@ "content" :> JStr(<<"o", "k">>)))),
    Response(200, JsonBody(JObj("response" :> JStr(<<>>)
                                @@ "content" :> JStr(<<"o", "k">>)))),
    Response(200, JsonBody(JObj("response" :> JNull
                                @@ "content" :> JStr(<<"o", "k">>)))),
    Response(200, JsonBody(JNull)),
    Response(200, InvalidBody),
    POST(JsonBody(JObj(NoFields)), 0, 0),
    POST(InvalidBody, 0, 0) }

EndpointResponses(endpoint, requestBody, t) ==
  IF endpoint = DemoEndpoint
  THEN { POST(requestBody, r, t) : r \in 0 .. BackendTemplates - 1 }
  ELSE OtherResponses

(***************************************************************************)
(* Props of the mounted widget (ChatWidgetProps); they do not change while *)
(* it is mounted.  endpoint "" stands for an absent or empty               *)
(* config.api.endpoint, both falsy.                                        *)
(***************************************************************************)
NoHeaders == [k \in {} |-> ""]

WelcomeMessage ==
  [ id        |-> "1",
    content   |-> <<"# Welcome to our support chat!\n\nHow can I help you today?">>,
    type      |-> "assistant",
    timestamp |-> MountTime ]

\* a value of ChatWidgetProps
Props(onSendMessage, sampleMode, endpoint, headers, initialMessages) ==
  [ onSendMessage   |-> onSendMessage,
    sampleMode      |-> sampleMode,
    endpoint        |-> endpoint,
    headers         |-> headers,
    initialMessages |-> initialMessages ]

\* the ways the widget is mounted: those of the repository's examples, and
\* those that configure more than one reply strategy
PropsChoices ==
  { \* <FuturisticChatWidget />
    Props(FALSE, FALSE, "", NoHeaders, <<>>),
    \* <FuturisticChatWidget sampleMode={true} />
    Props(FALSE, TRUE, "", NoHeaders, <<>>),
    \* <FuturisticChatWidget onSendMessage={handleSendMessage} />
    Props(TRUE, FALSE, "", NoHeaders, <<>>),
    \* examples/next-integration/page.tsx
    Props(FALSE, FALSE, DemoEndpoint, NoHeaders, <<>>),
    \* examples/ApiIntegrationExample.tsx
    Props(FALSE, FALSE, OtherEndpoint,
          "Authorization" :> "Bearer your-token-here" @@ "X-API-Key" :> "your-api-key",
          <<>>),
    \* an endpoint with a Content-Type of the caller's, and a pre-seeded log
    Props(FALSE, FALSE, OtherEndpoint, "Content-Type" :> "text/plain", <<WelcomeMessage>>),
    \* sampleMode with an endpoint configured as well, and a pre-seeded log
    Props(FALSE, TRUE, DemoEndpoint, NoHeaders, <<WelcomeMessage>>),
    \* a handler with sampleMode and an endpoint configured as well, and a pre-seeded log
    Props(TRUE, TRUE, OtherEndpoint, "X-Client-ID" :> "chat-widget-v1", <<WelcomeMessage>>) }

VARIABLES
  isOpen,        \* useState(false)
  messages,      \* useState<Message[]>(initialMessages)
  inputValue,    \* useState('')
  isTyping,      \* useState(false)
  props,         \* the props the widget was mounted with
  now,           \* Date.now()
  calls,         \* the invocations of handleSend, in the order they were made
  handlerCalls,  \* the calls made to props.onSendMessage
  timers,        \* the setTimeout timers started
  requests,      \* the fetch requests issued
  event,         \* the event the last step handled, with what it was given
  served         \* the requests the demo backend has answered, with its answers

vars == << isOpen, messages, inputValue, isTyping, props, now, calls,
           handlerCalls, timers, requests, event, served >>

effects == << handlerCalls, timers, requests >>

(***************************************************************************)
(* The pieces of handleSend.                                               *)
(***************************************************************************)
\* a user message that holds the trimmed text
UserMessageTrimmed(text, t) ==
  [id |-> ToString(t), content |-> trim(text), type |-> "user", timestamp |-> t]

\* const userMessage: Message = { id: Date.now().toString(), content: inputValue, ... }
UserMessage(text, t) ==
  [id |-> ToString(t), content |-> text, type |-> "user", timestamp |-> t]

\* { id: (Date.now() + 1).toString(), content, type: 'assistant', timestamp: new Date() }
AssistantMessage(content, t) ==
  [id |-> ToString(t + 1), content |-> content, type |-> "assistant", timestamp |-> t]

\* a catch block that reports the missing reply instead of the failure
ErrorMessageAsNoResponse(t) == AssistantMessage(NO_RESPONSE, t)

\* the message the catch block builds
ErrorMessage(t) == AssistantMessage(FAILURE_NOTICE, t)

\* an updater that puts the new message first
PrependMessage(prev, message) == <<message>> \o prev

\* an updater that appends to the log of an earlier render, here the first
AppendToFirstRender(prev, message) == props.initialMessages \o <<message>>

\* setMessages((prev) => [...prev, message])
AppendMessage(prev, message) == prev \o <<message>>

\* the branches tested in another order: sampleMode before onSendMessage
ReplyStrategySampleFirst(p) ==
  IF p.sampleMode THEN "sample"
  ELSE IF p.onSendMessage THEN "handler"
  ELSE IF p.endpoint # "" THEN "http"
  ELSE "none"

\* the last branch taken without its test: a plain else in place of
\* else if (config?.api?.endpoint)
ReplyStrategyEndpointUntested(p) ==
  IF p.onSendMessage THEN "handler"
  ELSE IF p.sampleMode THEN "sample"
  ELSE "http"

\* if (onSendMessage) ... else if (sampleMode) ... else if (config?.api?.endpoint) ...
ReplyStrategy(p) ==
  IF p.onSendMessage THEN "handler"
  ELSE IF p.sampleMode THEN "sample"
  ELSE IF p.endpoint # "" THEN "http"
  ELSE "none"

\* the fields read in the other order: data.content || data.response || 'No response'
ReplyContentContentFirst(data) ==
  IF Truthy(Get(data, "content")) THEN Get(data, "content").value
  ELSE IF Truthy(Get(data, "response")) THEN Get(data, "response").value
  ELSE NO_RESPONSE

\* data.response || data.content || 'No response'
ReplyContent(data) ==
  IF Truthy(Get(data, "response")) THEN Get(data, "response").value
  ELSE IF Truthy(Get(data, "content")) THEN Get(data, "content").value
  ELSE NO_RESPONSE

\* the spread written first: { ...config.api.headers, 'Content-Type': 'application/json' }
RequestHeadersDefaultLast(p) == DefaultHeaders @@ p.headers

\* headers: { 'Content-Type': 'application/json', ...config.api.headers }
RequestHeaders(p) == p.headers @@ DefaultHeaders

\* a body that is the text alone: JSON.stringify(inputValue)
RequestBodyBareText(text) == JsonBody(JStr(text))

\* body: JSON.stringify({ message: inputValue })
RequestBody(text) == JsonBody(JObj("message" :> JStr(text)))

\* a request that posts the trimmed text
FetchRequestTrimmed(p, text) ==
  [ url     |-> p.endpoint,
    method  |-> "POST",
    headers |-> RequestHeaders(p),
    body    |-> RequestBody(trim(text)) ]

\* the first argument and the init object of fetch
FetchRequest(p, text) ==
  [ url     |-> p.endpoint,
    method  |-> "POST",
    headers |-> RequestHeaders(p),
    body    |-> RequestBody(text) ]

\* a catch block that throws the error again
PromiseAfterRethrow == "rejected"

\* what the catch block leaves of the error: it is logged, never thrown again
PromiseAfterCatch == "fulfilled"

\* a finally block that leaves the indicator on
TypingLeftOn == TRUE

\* finally { setIsTyping(false) }
TypingAfterFinally == FALSE

\* a handler branch that appends a reply of its own
AfterHandlerWithReply(prev, t) == AppendMessage(prev, AssistantMessage(NO_RESPONSE, t))

\* the log after "await onSendMessage(inputValue)": the branch ends there
AfterHandler(prev, t) == prev

\* a timer that does not wait
TimerDueAtOnce(timer, t) == TRUE

\* setTimeout(resolve, 1500): the timer fires once its delay has passed
TimerDue(timer, t) == t >= timer.deadline

(***************************************************************************)
(* Mount.                                                                  *)
(***************************************************************************)
Init ==
  /\ props \in PropsChoices
  /\ isOpen = FALSE
  /\ messages = props.initialMessages
  /\ inputValue = <<>>
  /\ isTyping = FALSE
  /\ now = MountTime
  /\ calls = <<>>
  /\ handlerCalls = <<>>
  /\ timers = <<>>
  /\ requests = <<>>
  /\ event = [op |-> "mount"]
  /\ served = <<>>

(***************************************************************************)
(* User events, and the passing of time.  The clock is read for ids and    *)
(* timestamps and by the timers only, so it is advanced only as far as a   *)
(* timer needs it: the events between two deadlines take no time.          *)
(***************************************************************************)
\* a toggle that also abandons the sends in flight
toggleChatCancels ==
  /\ isOpen' = ~isOpen
  /\ calls' = [i \in DOMAIN calls |->
                 IF calls[i].pc = "done" THEN calls[i]
                 ELSE [calls[i] EXCEPT !.pc = "done", !.outcome = "cancelled",
                                       !.promise = "fulfilled"]]
  /\ isTyping' = FALSE
  /\ event' = [op |-> "toggleChat"]
  /\ UNCHANGED << messages, inputValue, props, served, now, effects >>

\* a toggle that only opens: setIsOpen(true)
toggleChatOpens ==
  /\ isOpen' = TRUE
  /\ event' = [op |-> "toggleChat"]
  /\ UNCHANGED << messages, inputValue, isTyping, props, served, now, calls, effects >>

\* const toggleChat = () => { setIsOpen(!isOpen) }
toggleChat ==
  /\ isOpen' = ~isOpen
  /\ event' = [op |-> "toggleChat"]
  /\ UNCHANGED << messages, inputValue, isTyping, props, served, now, calls, effects >>

\* an input that tidies what is typed: setInputValue(e.target.value.trim())
onChangeTrimmed ==
  \E text \in Drafts :
    /\ inputValue' = trim(text)
    /\ event' = [op |-> "onChange", text |-> text]
    /\ UNCHANGED << isOpen, messages, isTyping, props, served, now, calls, effects >>

\* onChange={(e) => setInputValue(e.target.value)}
onChange ==
  \E text \in Drafts :
    /\ inputValue' = text
    /\ event' = [op |-> "onChange", text |-> text]
    /\ UNCHANGED << isOpen, messages, isTyping, props, served, now, calls, effects >>

\* the timers that have not fired yet
Running == { k \in DOMAIN timers : calls[timers[k].call].pc = "awaitTimer" }

\* time passes, up to the deadline of the timer that is due next
Tick ==
  \E k \in Running :
    /\ \A j \in Running : timers[k].deadline <= timers[j].deadline
    /\ timers[k].deadline > now
    /\ now' = timers[k].deadline
    /\ event' = [op |-> "Tick"]
    /\ UNCHANGED << isOpen, messages, inputValue, isTyping, props, served, calls, effects >>

(***************************************************************************)
(* handleSend.  A call is suspended at one await at a time:                *)
(*   awaitHandler  await onSendMessage(inputValue)                         *)
(*   awaitTimer    await new Promise((resolve) => setTimeout(resolve, ..)) *)
(*   awaitFetch    await fetch(...)                                        *)
(*   awaitJson     await response.json()                                   *)
(* and is "done" when the function has run to its end.  With the values    *)
(* the closure holds (text) a call carries             a record of what it   *)
(* did: where its user message and its assistant message went in the log,  *)
(* how it ended, and the state of the promise handleSend returned.         *)
(***************************************************************************)
NewCall(text, strategy, pc, userIdx) ==
  [ text     |-> text,
    strategy |-> strategy,
    pc       |-> pc,
    userIdx  |-> userIdx,
    replyIdx |-> 0,
    outcome  |-> "pending",
    promise  |-> "pending" ]

\* the call has run to its end without an assistant message of its own
Returned(call, outcome) ==
  [call EXCEPT !.pc = "done", !.outcome = outcome,
               !.promise = "fulfilled"]

\* the call has appended its reply at replyIdx and run to its end
Replied(call, replyIdx) ==
  [call EXCEPT !.pc = "done", !.outcome = "replied",
               !.replyIdx = replyIdx, !.promise = "fulfilled"]

\* the call has gone through the catch block and run to its end
Caught(call, replyIdx) ==
  [call EXCEPT !.pc = "done", !.outcome = "failed",
               !.replyIdx = replyIdx, !.promise = PromiseAfterCatch]

\* catch (error) { ... setMessages((prev) => [...prev, errorMessage]) } finally { ... }
CatchAndFinally(i) ==
  /\ messages' = AppendMessage(messages, ErrorMessage(now))
  /\ isTyping' = TypingAfterFinally
  /\ calls' = [calls EXCEPT ![i] = Caught(@, Len(messages) + 1)]

\* a guard that also turns a send away while a reply is awaited
EarlyReturnWhileTyping == isTyping \/ trim(inputValue) = <<>>

\* a guard that turns every send away once a send has failed
EarlyReturnAfterFailure ==
  \/ \E i \in DOMAIN calls : calls[i].outcome = "failed"
  \/ trim(inputValue) = <<>>

\* if (!inputValue.trim()) return
EarlyReturn == trim(inputValue) = <<>>

\* const handleSend = async () => { ... }, up to its first await
handleSend ==
  IF EarlyReturn
  THEN \* nothing else of the function runs
       /\ event' = [op |-> "handleSend", accepted |-> FALSE]
       /\ UNCHANGED << isOpen, messages, inputValue, isTyping, props, served, now,
                       calls, effects >>
  ELSE /\ Len(calls) < MaxSends
       /\ inputValue' = <<>>
       /\ LET i        == Len(calls) + 1
              strategy == ReplyStrategy(props)
              sent     == AppendMessage(messages, UserMessage(inputValue, now))
              userIdx  == Len(messages) + 1
          IN
          CASE strategy = "handler" ->
                 /\ handlerCalls' = Append(handlerCalls, [call |-> i, message |-> inputValue])
                 /\ \E throws \in BOOLEAN :
                      IF throws
                      THEN \* onSendMessage throws before it returns a promise
                           /\ messages' = AppendMessage(sent, ErrorMessage(now))
                           /\ isTyping' = TypingAfterFinally
                           /\ calls' = Append(calls,
                                Caught(NewCall(inputValue, strategy, "done", userIdx),
                                       userIdx + 1))
                      ELSE /\ messages' = sent
                           /\ isTyping' = TRUE
                           /\ calls' = Append(calls,
                                NewCall(inputValue, strategy, "awaitHandler", userIdx))
                 /\ UNCHANGED << timers, requests >>
            [] strategy = "sample" ->
                 /\ timers' = Append(timers, [call |-> i, deadline |-> now + SAMPLE_DELAY])
                 /\ messages' = sent
                 /\ isTyping' = TRUE
                 /\ calls' = Append(calls, NewCall(inputValue, strategy, "awaitTimer", userIdx))
                 /\ UNCHANGED << handlerCalls, requests >>
            [] strategy = "http" ->
                 /\ requests' = Append(requests,
                      [call |-> i, request |-> FetchRequest(props, inputValue)])
                 /\ messages' = sent
                 /\ isTyping' = TRUE
                 /\ calls' = Append(calls, NewCall(inputValue, strategy, "awaitFetch", userIdx))
                 /\ UNCHANGED << handlerCalls, timers >>
            [] OTHER ->
                 \* no branch is taken: the try block is empty and finally runs at once
                 /\ messages' = sent
                 /\ isTyping' = TypingAfterFinally
                 /\ calls' = Append(calls,
                      Returned(NewCall(inputValue, strategy, "done", userIdx), "none"))
                 /\ UNCHANGED effects
       /\ event' = [op |-> "handleSend", accepted |-> TRUE, call |-> Len(calls) + 1]
       /\ UNCHANGED << isOpen, props, served, now >>

\* the promise onSendMessage returned settles
HandlerSettles ==
  \E i \in DOMAIN calls, fulfilled \in BOOLEAN :
    /\ calls[i].pc = "awaitHandler"
    /\ IF fulfilled
       THEN /\ isTyping' = TypingAfterFinally
            /\ calls' = [calls EXCEPT ![i] = Returned(@, "handled")]
            /\ messages' = AfterHandler(messages, now)
       ELSE CatchAndFinally(i)
    /\ event' = [op |-> "HandlerSettles", call |-> i, fulfilled |-> fulfilled]
    /\ UNCHANGED << isOpen, inputValue, props, served, now, effects >>

\* the timer of a call fires: the lines after the await in the sampleMode branch;
\* timers of one delay fire in the order they were started
TimerFires ==
  \E i \in DOMAIN calls, k \in DOMAIN timers, r \in DOMAIN SAMPLE_RESPONSES :
    /\ calls[i].pc = "awaitTimer"
    /\ timers[k].call = i
    /\ \A j \in Running : k <= j
    /\ TimerDue(timers[k], now)
    /\ messages' = AppendMessage(messages, AssistantMessage(SAMPLE_RESPONSES[r], now))
    /\ isTyping' = TypingAfterFinally
    /\ calls' = [calls EXCEPT ![i] = Replied(@, Len(messages) + 1)]
    /\ event' = [op |-> "TimerFires", call |-> i]
    /\ UNCHANGED << isOpen, inputValue, props, served, now, effects >>

\* a failed request that also opens the widget
FetchSettlesOpens ==
  \E i \in DOMAIN calls, fulfilled \in BOOLEAN :
    /\ calls[i].pc = "awaitFetch"
    /\ IF fulfilled
       THEN /\ calls' = [calls EXCEPT ![i].pc = "awaitJson"]
            /\ UNCHANGED << messages, isTyping, isOpen >>
       ELSE CatchAndFinally(i) /\ isOpen' = TRUE
    /\ event' = [op |-> "FetchSettles", call |-> i, fulfilled |-> fulfilled]
    /\ UNCHANGED << inputValue, props, served, now, effects >>

\* the promise fetch returned settles: with a Response, or rejected
FetchSettles ==
  \E i \in DOMAIN calls, fulfilled \in BOOLEAN :
    /\ calls[i].pc = "awaitFetch"
    /\ IF fulfilled
       THEN /\ calls' = [calls EXCEPT ![i].pc = "awaitJson"]
            /\ UNCHANGED << messages, isTyping >>
       ELSE CatchAndFinally(i)
    /\ event' = [op |-> "FetchSettles", call |-> i, fulfilled |-> fulfilled]
    /\ UNCHANGED << isOpen, inputValue, props, served, now, effects >>

\* the promise response.json() returned settles, and the lines after it run;
\* response is what the endpoint answered to the request of the call
JsonSettles ==
  \E i \in DOMAIN calls, k \in DOMAIN requests :
    /\ calls[i].pc = "awaitJson"
    /\ requests[k].call = i
    /\ \E response \in EndpointResponses(requests[k].request.url,
                                         requests[k].request.body, now) :
         /\ IF response.body.kind = "invalid" \/ response.body.data.type # "object"
            THEN \* json() rejects, or data.response throws on null
                 CatchAndFinally(i)
            ELSE /\ messages' = AppendMessage(messages,
                                 AssistantMessage(ReplyContent(response.body.data), now))
                 /\ isTyping' = TypingAfterFinally
                 /\ calls' = [calls EXCEPT ![i] = Replied(@, Len(messages) + 1)]
         /\ event' = [op |-> "JsonSettles", call |-> i, response |-> response]
    /\ UNCHANGED << isOpen, inputValue, props, served, now, effects >>

Next ==
  \/ toggleChat
  \/ onChange
  \/ handleSend
  \/ HandlerSettles
  \/ TimerFires
  \/ FetchSettles
  \/ JsonSettles
  \/ Tick

Spec == Init /\ [][Next]_vars

\* every promise a call awaits settles in the end, and time passes: the handler
\* promise, the timer and the clock it waits for, the fetch promise, the json promise
FairSpec ==
  /\ Spec
  /\ WF_vars(HandlerSettles)
  /\ WF_vars(Tick)
  /\ WF_vars(TimerFires)
  /\ WF_vars(FetchSettles)
  /\ WF_vars(JsonSettles)

(***************************************************************************)
(* The demo backend on its own: the route answers the requests of any      *)
(* client, the widget's or not, one after the other.                       *)
(***************************************************************************)
\* the bodies a client can post: not JSON; JSON that is no object; objects
\* without a message, with a falsy one, with a truthy one; what the widget posts
RequestBodies ==
  { InvalidBody,
    JsonBody(JNull),
    JsonBody(JStr(<<"h">>)),
    JsonBody(JObj(NoFields)),
    JsonBody(JObj("text" :> JStr(<<"h">>))),
    JsonBody(JObj("message" :> JStr(<<>>))),
    JsonBody(JObj("message" :> JNull)),
    JsonBody(JObj("message" :> JObj(NoFields))),
    JsonBody(JObj("message" :> JStr(<<"h">>) @@ "user" :> JStr(<<"u">>))) }
  \cup { RequestBody(text) : text \in Drafts \ {<<>>} }

\* the route answers one more request
POSTServed ==
  \E requestBody \in RequestBodies, r \in 0 .. BackendTemplates - 1 :
    /\ Len(served) < MaxServed
    /\ served' = Append(served, [ request  |-> requestBody,
                                  draw     |-> r,
                                  at       |-> now,
                                  response |-> POST(requestBody, r, now) ])
    /\ UNCHANGED << isOpen, messages, inputValue, isTyping, props, now, calls,
                    effects, event >>

BackendNext == POSTServed

\* the page of examples/next-integration is mounted and left alone
BackendInit ==
  /\ Init
  /\ props = Props(FALSE, FALSE, DemoEndpoint, NoHeaders, <<>>)

BackendSpec == BackendInit /\ [][BackendNext]_vars

(***************************************************************************)
(* Vocabulary of the properties.                                           *)
(***************************************************************************)
IsPrefix(s, t) == Len(s) <= Len(t) /\ SubSeq(t, 1, Len(s)) = s

\* empty, or whitespace only
IsBlank(text) == \A k \in DOMAIN text : text[k] \in {" ", "\t", "\n"}

\* the part of the log appended since mount
Appended == SubSeq(messages, Len(props.initialMessages) + 1, Len(messages))

CountOfType(log, type) == Cardinality({ k \in DOMAIN log : log[k].type = type })

CallsWith(outcomes) == { i \in DOMAIN calls : calls[i].outcome \in outcomes }

\* the step just taken was the run of the event named op
Ran(op) == event'.op = op

\* the last message of the log after the step
Newest == messages'[Len(messages')]

AppendedOne == Len(messages') = Len(messages) + 1 /\ IsPrefix(messages, messages')

(***************************************************************************)
(* C1.  A send of a draft that is not blank appends exactly one user       *)
(* message, whose content is the draft as typed, and appends it before any *)
(* assistant message of that send: the step of the send puts it directly   *)
(* after the log as it was, and in every state the user message of a call  *)
(* sits at a lower index than its reply.                                   *)
(***************************************************************************)
C1_UserMessageBeforeReply ==
  /\ [][ (Ran("handleSend") /\ ~IsBlank(inputValue)) =>
           /\ Len(messages') > Len(messages)
           /\ SubSeq(messages', 1, Len(messages)) = messages
           /\ messages'[Len(messages) + 1].type = "user"
           /\ messages'[Len(messages) + 1].content = inputValue
           /\ CountOfType(messages', "user") = CountOfType(messages, "user") + 1
           /\ calls'[event'.call].userIdx = Len(messages) + 1 ]_vars
  /\ [][ ~Ran("handleSend") =>
           CountOfType(messages', "user") = CountOfType(messages, "user") ]_vars
  /\ [] \A i \in DOMAIN calls :
          /\ calls[i].userIdx \in DOMAIN messages
          /\ messages[calls[i].userIdx].type = "user"
          /\ messages[calls[i].userIdx].content = calls[i].text
          /\ calls[i].replyIdx # 0 =>
               /\ calls[i].replyIdx \in DOMAIN messages
               /\ calls[i].userIdx < calls[i].replyIdx
               /\ messages[calls[i].replyIdx].type = "assistant"

\* a padded draft was sent and its reply has arrived
C1_Witness ==
  \E i \in DOMAIN calls :
    /\ calls[i].text = <<" ", "h", " ">>
    /\ calls[i].outcome = "replied"
    /\ calls[i].replyIdx > calls[i].userIdx

(***************************************************************************)
(* C2.  A send of a blank draft (empty or whitespace only) changes         *)
(* nothing: the log, the draft, isTyping and isOpen stay as they were, no  *)
(* call is made to the handler, no timer is started, no request is issued  *)
(* and no invocation is left pending.                                      *)
(***************************************************************************)
C2_BlankSendIsNoOp ==
  [][ (Ran("handleSend") /\ IsBlank(inputValue)) =>
        /\ ~event'.accepted
        /\ UNCHANGED << messages, inputValue, isTyping, isOpen, calls,
                        handlerCalls, timers, requests >> ]_vars

\* handleSend has just run on a draft of one space
C2_Witness ==
  /\ event.op = "handleSend"
  /\ ~event.accepted
  /\ inputValue = <<" ">>

(***************************************************************************)
(* C3.  The log is append-only: over every step the log before is a prefix *)
(* of the log after, and initialMessages is a prefix of the log in every   *)
(* state.                                                                  *)
(***************************************************************************)
C3_AppendOnly ==
  /\ [][ IsPrefix(messages, messages') ]_vars
  /\ [] IsPrefix(props.initialMessages, messages)

\* a pre-seeded log that has grown by a user message and a failure notice
C3_Witness ==
  /\ props.initialMessages # <<>>
  /\ Len(messages) >= 3
  /\ CallsWith({"failed"}) # {}

(***************************************************************************)
(* C4.  Every accepted send starts the one reply strategy the priority     *)
(* handler > sample mode > endpoint selects, and no other: with a handler  *)
(* supplied no timer is started and no request issued, whatever sampleMode *)
(* and the endpoint are; without a handler and with sampleMode no request  *)
(* is issued.  (With nothing configured nothing is started.)               *)
(***************************************************************************)
StartedFor(log, i) == Cardinality({ k \in DOMAIN log : log[k].call = i })

C4_OneStrategyByPriority ==
  /\ props.onSendMessage =>
       /\ timers = <<>> /\ requests = <<>>
       /\ \A i \in DOMAIN calls : StartedFor(handlerCalls, i) = 1
  /\ (~props.onSendMessage /\ props.sampleMode) =>
       /\ handlerCalls = <<>> /\ requests = <<>>
       /\ \A i \in DOMAIN calls : StartedFor(timers, i) = 1
  /\ (~props.onSendMessage /\ ~props.sampleMode /\ props.endpoint # "") =>
       /\ handlerCalls = <<>> /\ timers = <<>>
       /\ \A i \in DOMAIN calls : StartedFor(requests, i) = 1
  /\ (~props.onSendMessage /\ ~props.sampleMode /\ props.endpoint = "") =>
       handlerCalls = <<>> /\ timers = <<>> /\ requests = <<>>
  /\ Len(handlerCalls) + Len(timers) + Len(requests) <= Len(calls)

\* all three strategies configured, two sends accepted
C4_Witness ==
  /\ props.onSendMessage /\ props.sampleMode /\ props.endpoint # ""
  /\ Len(calls) >= 2
  /\ Len(handlerCalls) >= 2

Pool == { SAMPLE_RESPONSES[r] : r \in DOMAIN SAMPLE_RESPONSES }

C6_SampleReplyAfterDelay ==
  /\ [][ (~props.onSendMessage /\ props.sampleMode
            /\ CountOfType(messages', "assistant") # CountOfType(messages, "assistant")) =>
           /\ Ran("TimerFires")
           /\ AppendedOne
           /\ calls[event'.call].pc = "awaitTimer"
           /\ calls'[event'.call].replyIdx = Len(messages') ]_vars
  /\ [] ((~props.onSendMessage /\ props.sampleMode) =>
           /\ \A i \in DOMAIN calls :
                /\ calls[i].pc = "done" <=> calls[i].replyIdx # 0
                /\ calls[i].replyIdx # 0 =>
                     /\ messages[calls[i].replyIdx].type = "assistant"
                     /\ messages[calls[i].replyIdx].content \in Pool
                     /\ messages[calls[i].replyIdx].timestamp >=
                          messages[calls[i].userIdx].timestamp + 1500
           /\ \A i, j \in DOMAIN calls :
                (i # j /\ calls[i].replyIdx # 0) => calls[i].replyIdx # calls[j].replyIdx
           /\ CountOfType(Appended, "assistant") = Cardinality(CallsWith({"replied"})))

\* the timer of a send has just fired and its reply is the newest message
C6_Witness ==
  /\ ~props.onSendMessage /\ props.sampleMode
  /\ event.op = "TimerFires"
  /\ messages[Len(messages)].content \in Pool
  /\ calls[event.call].replyIdx = Len(messages)

(***************************************************************************)
(* C7.  In the HTTP strategy a decoded JSON object gives the reply its     *)
(* content: the response field when that field is present and truthy (a    *)
(* string that is not empty), otherwise the content field when that is     *)
(* present and truthy, otherwise the literal "No response".                *)
(***************************************************************************)
\* the step just taken decoded the body of the endpoint's answer to an object
DecodedObject ==
  /\ Ran("JsonSettles")
  /\ event'.response.body.kind = "json"
  /\ event'.response.body.data.type = "object"

Decoded == event'.response.body.data.fields

NonEmptyString(fields, k) ==
  k \in DOMAIN fields /\ fields[k].type = "string" /\ fields[k].value # <<>>

\* a field's value as the content of a message
AsContent(v) == IF v.type = "string" THEN v.value ELSE <<v.type>>

C7_ReplyContentFromTruthyFields ==
  [][ DecodedObject =>
        /\ AppendedOne
        /\ Newest.type = "assistant"
        /\ Newest.content =
             IF NonEmptyString(Decoded, "response") THEN Decoded["response"].value
             ELSE IF NonEmptyString(Decoded, "content") THEN Decoded["content"].value
             ELSE <<"No response">> ]_vars

\* the claim as written: the response field whenever it is present
C7_ReplyContentFromPresentFields ==
  [][ DecodedObject =>
        /\ AppendedOne
        /\ Newest.type = "assistant"
        /\ Newest.content =
             IF "response" \in DOMAIN Decoded THEN AsContent(Decoded["response"])
             ELSE IF "content" \in DOMAIN Decoded THEN AsContent(Decoded["content"])
             ELSE <<"No response">> ]_vars

\* the endpoint answered {"response": "", "content": "ok"} and the reply says "ok"
C7_Witness ==
  /\ event.op = "JsonSettles"
  /\ event.response.body = JsonBody(JObj("response" :> JStr(<<>>)
                                         @@ "content" :> JStr(<<"o", "k">>)))
  /\ messages[Len(messages)].content = <<"o", "k">>

(***************************************************************************)
(* C8.  In the HTTP strategy a rejected request and a body that does not   *)
(* decode as JSON each end the send with exactly one assistant message,    *)
(* the failure notice, and with isTyping false; the send is then over (it  *)
(* appends nothing more), and every assistant message appended since mount *)
(* is the one message of one send.                                         *)
(***************************************************************************)
HttpFailure ==
  \/ Ran("FetchSettles") /\ ~event'.fulfilled
  \/ Ran("JsonSettles") /\ event'.response.body.kind = "invalid"

C8_HttpFailureNotice ==
  /\ [][ HttpFailure =>
           /\ AppendedOne
           /\ Newest.type = "assistant"
           /\ Newest.content = <<"Sorry, there was an error processing your message.">>
           /\ isTyping' = FALSE
           /\ calls'[event'.call].pc = "done"
           /\ calls'[event'.call].outcome = "failed"
           /\ calls'[event'.call].replyIdx = Len(messages')
           /\ \A j \in DOMAIN calls : j # event'.call => calls'[j] = calls[j] ]_vars
  /\ [][ \A i \in DOMAIN calls : calls[i].pc = "done" => calls'[i] = calls[i] ]_vars
  /\ [] /\ \A i, j \in DOMAIN calls :
             (i # j /\ calls[i].replyIdx # 0) => calls[i].replyIdx # calls[j].replyIdx
        /\ CountOfType(Appended, "assistant") =
             Cardinality({ i \in DOMAIN calls : calls[i].replyIdx # 0 })

\* a body that is not JSON has just been read
C8_Witness ==
  /\ event.op = "JsonSettles"
  /\ event.response.body.kind = "invalid"
  /\ ~isTyping
  /\ messages[Len(messages)].content = FAILURE_NOTICE
  /\ calls[event.call].replyIdx = Len(messages)

(***************************************************************************)
(* C9.  In the HTTP strategy an answer with a status outside 200..299 is a *)
(* failure: the assistant message of the send is the failure notice.       *)
(***************************************************************************)
C9_NonOkStatusIsFailure ==
  (event.op = "JsonSettles" /\ event.response.status \notin 200 .. 299) =>
    messages[calls[event.call].replyIdx].content =
      <<"Sorry, there was an error processing your message.">>

(***************************************************************************)
(* C10.  A handler that throws, or whose promise rejects, is absorbed: the *)
(* send appends exactly one assistant message, the failure notice, clears  *)
(* isTyping, and the promise handleSend returned is fulfilled, never       *)
(* rejected.                                                               *)
(***************************************************************************)
C10_HandlerFailureAbsorbed ==
  /\ [][ (Ran("HandlerSettles") /\ ~event'.fulfilled) =>
           /\ AppendedOne
           /\ Newest.type = "assistant"
           /\ Newest.content = <<"Sorry, there was an error processing your message.">>
           /\ isTyping' = FALSE
           /\ calls'[event'.call].pc = "done"
           /\ calls'[event'.call].promise = "fulfilled" ]_vars
  /\ [][ (Ran("handleSend") /\ event'.accepted /\ props.onSendMessage
            /\ calls'[event'.call].pc = "done") =>
           /\ Len(messages') = Len(messages) + 2
           /\ IsPrefix(messages, messages')
           /\ messages'[Len(messages) + 1].type = "user"
           /\ Newest.type = "assistant"
           /\ Newest.content = <<"Sorry, there was an error processing your message.">>
           /\ isTyping' = FALSE
           /\ calls'[event'.call].promise = "fulfilled" ]_vars
  /\ [] \A i \in DOMAIN calls :
          /\ calls[i].promise # "rejected"
          /\ calls[i].pc = "done" <=> calls[i].promise = "fulfilled"
          /\ calls[i].outcome = "failed" =>
               messages[calls[i].replyIdx].content = FAILURE_NOTICE

\* the promise of the handler has just rejected and handleSend has completed
C10_Witness ==
  /\ event.op = "HandlerSettles"
  /\ ~event.fulfilled
  /\ calls[event.call].promise = "fulfilled"
  /\ ~isTyping
  /\ messages[Len(messages)].content = FAILURE_NOTICE

(***************************************************************************)
(* C11.  isTyping is true for as long as a send is in flight: in every     *)
(* state in which some invocation of handleSend has not run to its end,    *)
(* isTyping is true.                                                       *)
(***************************************************************************)
\* the invocations of handleSend that are suspended at an await
InFlight == { i \in DOMAIN calls : calls[i].pc # "done" }

C11_TypingWhileInFlight == InFlight # {} => isTyping

(***************************************************************************)
(* C12.  Every send that ends clears isTyping, however it ends: the step   *)
(* in which an invocation runs to its end leaves isTyping false, isTyping  *)
(* is false whenever no invocation is in flight, and, every awaited        *)
(* promise settling in the end, a state with isTyping true is always       *)
(* followed by a state with isTyping false.                                *)
(***************************************************************************)
C12_TypingIsCleared ==
  /\ [][ (\E i \in DOMAIN calls' :
             /\ calls'[i].pc = "done"
             /\ i \in DOMAIN calls => calls[i].pc # "done") => ~isTyping' ]_vars
  /\ [] (InFlight = {} => ~isTyping)
  /\ isTyping ~> ~isTyping

\* two sends are over, one with a reply and one with a failure notice, and
\* the indicator is off
C12_Witness ==
  /\ Len(calls) = 2
  /\ InFlight = {}
  /\ CallsWith({"replied"}) # {}
  /\ CallsWith({"failed"}) # {}
  /\ ~isTyping

(***************************************************************************)
(* C13.  With no handler, sampleMode false and no endpoint, an accepted    *)
(* send appends the user message, clears the draft, and is over at once    *)
(* with isTyping false: it calls nothing, starts no timer and issues no    *)
(* request, and no assistant message is ever appended.                     *)
(***************************************************************************)
NothingConfigured ==
  ~props.onSendMessage /\ ~props.sampleMode /\ props.endpoint = ""

C13_NoStrategyNoReply ==
  /\ [][ (NothingConfigured /\ Ran("handleSend") /\ ~IsBlank(inputValue)) =>
           /\ event'.accepted
           /\ AppendedOne
           /\ Newest.type = "user"
           /\ Newest.content = inputValue
           /\ inputValue' = <<>>
           /\ isTyping' = FALSE
           /\ calls'[event'.call].pc = "done"
           /\ calls'[event'.call].replyIdx = 0
           /\ UNCHANGED << handlerCalls, timers, requests >> ]_vars
  /\ [] (NothingConfigured =>
           /\ CountOfType(Appended, "assistant") = 0
           /\ CountOfType(Appended, "user") = Len(calls)
           /\ ~isTyping
           /\ \A i \in DOMAIN calls : calls[i].pc = "done" /\ calls[i].replyIdx = 0
           /\ handlerCalls = <<>> /\ timers = <<>> /\ requests = <<>>)

\* nothing is configured and two sends have been accepted
C13_Witness ==
  /\ NothingConfigured
  /\ event.op = "handleSend"
  /\ event.accepted
  /\ Len(calls) = 2
  /\ Len(Appended) = 2
  /\ inputValue = <<>>
  /\ ~isTyping

(***************************************************************************)
(* C14.  The ids of the log are unique: in every state any two entries of  *)
(* the log at different positions have different ids.                      *)
(***************************************************************************)
C14_UniqueIds ==
  \A k, l \in DOMAIN messages : k # l => messages[k].id # messages[l].id

(***************************************************************************)
(* C15.  A send in flight is not cancelled.  A toggle, a change of the     *)
(* draft and a further send leave every earlier invocation, its timer and  *)
(* its request as they were; an invocation of the sample or the HTTP       *)
(* strategy ends only by appending its assistant message, open or closed;  *)
(* and, every awaited promise settling in the end, each such invocation    *)
(* does get its assistant message into the log.                            *)
(***************************************************************************)
Awaited(call) == call.strategy \in {"sample", "http"} /\ call.pc # "done"

C15_NoCancellation ==
  /\ [][ (Ran("toggleChat") \/ Ran("onChange") \/ Ran("handleSend")) =>
           /\ \A i \in DOMAIN calls : calls'[i] = calls[i]
           /\ IsPrefix(timers, timers')
           /\ IsPrefix(requests, requests') ]_vars
  /\ [][ \A i \in DOMAIN calls :
           (Awaited(calls[i]) /\ calls'[i].pc = "done") =>
             /\ AppendedOne
             /\ Newest.type = "assistant"
             /\ calls'[i].replyIdx = Len(messages') ]_vars
  /\ \A i \in 1 .. MaxSends :
       (i \in DOMAIN calls /\ Awaited(calls[i]))
         ~> (i \in DOMAIN calls /\ calls[i].replyIdx # 0
               /\ messages[calls[i].replyIdx].type = "assistant")

\* the reply of the first send has just arrived, with the widget closed, a
\* new draft typed and a second send made in the meantime
C15_Witness ==
  /\ ~isOpen
  /\ event.op \in {"TimerFires", "JsonSettles"}
  /\ event.call = 1
  /\ Len(calls) = 2
  /\ calls[1].strategy \in {"sample", "http"}
  /\ calls[1].replyIdx = Len(messages)
  /\ calls[1].replyIdx > calls[2].userIdx
  /\ inputValue # <<>>

(***************************************************************************)
(* C16.  The draft is the only guard of a send: a send of a draft that is  *)
(* not blank is accepted and starts a new invocation whether isTyping is   *)
(* true or not.  The invocations then race: whichever of them awaits a     *)
(* handler or a request can be the next to go on, whatever the order of    *)
(* the sends, so the reply of a later send can be in the log while an      *)
(* earlier send is still in flight.                                        *)
(***************************************************************************)
C16_SendsOverlap ==
  /\ [][ (Ran("handleSend") /\ ~IsBlank(inputValue)) =>
           /\ event'.accepted
           /\ Len(calls') = Len(calls) + 1
           /\ event'.call = Len(calls')
           /\ \A i \in DOMAIN calls : calls'[i] = calls[i] ]_vars
  /\ [] \A i \in DOMAIN calls :
          /\ calls[i].pc = "awaitHandler" =>
               ENABLED (HandlerSettles /\ event'.call = i)
          /\ calls[i].pc = "awaitFetch" =>
               ENABLED (FetchSettles /\ event'.call = i)
          /\ calls[i].pc = "awaitJson" =>
               ENABLED (JsonSettles /\ event'.call = i)

\* the reply of the second send has just been appended while the first
\* send, made before it, still awaits its request
C16_Witness ==
  /\ Len(calls) = 2
  /\ event.op = "JsonSettles"
  /\ event.call = 2
  /\ calls[2].outcome = "replied"
  /\ calls[2].replyIdx = Len(messages)
  /\ calls[1].pc \in {"awaitFetch", "awaitJson"}
  /\ calls[1].userIdx < calls[2].userIdx

(***************************************************************************)
(* C17.  In the HTTP strategy every accepted send issues one request and   *)
(* no step but an accepted send issues any: the requests issued are, in    *)
(* order, one per invocation, each a POST to the configured endpoint with  *)
(* the body {"message": text}, text being the draft that was sent; a       *)
(* request, once issued, is never changed nor issued again, whether it     *)
(* succeeds or fails.                                                      *)
(***************************************************************************)
HttpConfigured ==
  ~props.onSendMessage /\ ~props.sampleMode /\ props.endpoint # ""

C17_OnePostPerSend ==
  /\ [][ requests' # requests =>
           /\ Ran("handleSend")
           /\ event'.accepted
           /\ Len(requests') = Len(requests) + 1
           /\ IsPrefix(requests, requests') ]_vars
  /\ [] (HttpConfigured =>
           /\ Len(requests) = Len(calls)
           /\ \A k \in DOMAIN requests :
                /\ requests[k].call = k
                /\ requests[k].request.method = "POST"
                /\ requests[k].request.url = props.endpoint
                /\ requests[k].request.body =
                     [kind |-> "json",
                      data |-> [type   |-> "object",
                                fields |-> "message" :>
                                  [type |-> "string", value |-> calls[k].text]]]
                /\ calls[k].text = messages[calls[k].userIdx].content)

\* two sends have failed, one padded, and two requests were issued in all
C17_Witness ==
  /\ HttpConfigured
  /\ Len(calls) = 2
  /\ \A i \in DOMAIN calls : calls[i].outcome = "failed"
  /\ \E i \in DOMAIN calls : calls[i].text = <<" ", "h", " ">>
  /\ Len(requests) = 2

(***************************************************************************)
(* C18.  The headers of every request are the default Content-Type:        *)
(* application/json overlaid with the configured headers: each configured  *)
(* header is there with the configured value (a configured Content-Type in *)
(* place of the default), Content-Type is application/json when none is    *)
(* configured, and there is no other header.                               *)
(***************************************************************************)
C18_HeadersOverlayDefault ==
  \A k \in DOMAIN requests :
    LET sent == requests[k].request.headers
    IN  /\ DOMAIN sent = DOMAIN props.headers \cup {"Content-Type"}
        /\ \A name \in DOMAIN props.headers : sent[name] = props.headers[name]
        /\ "Content-Type" \notin DOMAIN props.headers =>
             sent["Content-Type"] = "application/json"

\* a request was issued with the configured Content-Type text/plain
C18_Witness ==
  /\ requests # <<>>
  /\ "Content-Type" \in DOMAIN props.headers
  /\ requests[1].request.headers["Content-Type"] = "text/plain"

(***************************************************************************)
(* C19.  The widget is closed on mount, and a toggle flips isOpen and      *)
(* changes nothing else: the log, the draft, isTyping, the invocations in  *)
(* flight and their timers and requests stay as they were.  (A toggle      *)
(* taken in a state a toggle has just produced flips isOpen back to the    *)
(* value it had before the two.)                                           *)
(***************************************************************************)
C19_ToggleFlipsOnly ==
  /\ [][ Ran("toggleChat") =>
           /\ isOpen' = ~isOpen
           /\ UNCHANGED << messages, inputValue, isTyping, calls,
                           handlerCalls, timers, requests, props, now >> ]_vars
  /\ [][ (event.op = "toggleChat" /\ Ran("toggleChat")) => isOpen' = ~isOpen ]_vars
  /\ [] (event.op = "mount" => ~isOpen)

\* the widget has just been toggled back to closed, with a draft typed and
\* a send in flight
C19_Witness ==
  /\ event.op = "toggleChat"
  /\ ~isOpen
  /\ inputValue # <<>>
  /\ isTyping
  /\ \E i \in DOMAIN calls : calls[i].pc # "done"

(***************************************************************************)
(* C20.  isOpen changes in a toggle only: a change of the draft, a send,   *)
(* the passing of time, a reply and a failure all leave it as it was.      *)
(***************************************************************************)
C20_OnlyToggleChangesIsOpen ==
  /\ [][ isOpen' # isOpen => Ran("toggleChat") ]_vars
  /\ [][ (\/ Ran("onChange") \/ Ran("handleSend") \/ Ran("Tick")
          \/ Ran("HandlerSettles") \/ Ran("TimerFires")
          \/ Ran("FetchSettles") \/ Ran("JsonSettles")) => isOpen' = isOpen ]_vars

\* a request has just failed while the widget was closed, and it is still closed
C20_Witness ==
  /\ event.op = "FetchSettles"
  /\ ~event.fulfilled
  /\ messages[Len(messages)].content = FAILURE_NOTICE
  /\ ~isOpen

(***************************************************************************)
(* C21.  The draft changes in two ways only.  A change of the input sets   *)
(* it to the text given, as given, and leaves the log, isTyping, isOpen    *)
(* and the invocations alone; an accepted send sets it to the empty        *)
(* string.  No other step changes it: not the passing of time, a toggle, a *)
(* reply or a failure, so what is typed while a send is in flight is       *)
(* still the draft when that send is over.                                 *)
(***************************************************************************)
C21_DraftChangesTwoWays ==
  /\ [][ Ran("onChange") =>
           /\ inputValue' = event'.text
           /\ UNCHANGED << messages, isTyping, isOpen, calls,
                           handlerCalls, timers, requests >> ]_vars
  /\ [][ (Ran("handleSend") /\ event'.accepted) => inputValue' = <<>> ]_vars
  /\ [][ inputValue' # inputValue =>
           \/ Ran("onChange")
           \/ Ran("handleSend") /\ event'.accepted ]_vars
  /\ [][ (\/ Ran("toggleChat") \/ Ran("Tick") \/ Ran("HandlerSettles")
          \/ Ran("TimerFires") \/ Ran("FetchSettles") \/ Ran("JsonSettles")) =>
           inputValue' = inputValue ]_vars

\* a padded draft typed while the send was in flight is still there when
\* the reply has just been appended
C21_Witness ==
  /\ event.op \in {"TimerFires", "JsonSettles"}
  /\ calls[event.call].replyIdx = Len(messages)
  /\ InFlight = {}
  /\ inputValue = <<" ", "h", " ">>

(***************************************************************************)
(* C22.  With a handler supplied, the response the handler obtained is     *)
(* displayed: once the handler has completed normally, the log holds an    *)
(* assistant message of that send.                                         *)
(***************************************************************************)
C22_HandlerResponseDisplayed ==
  \A i \in DOMAIN calls :
    calls[i].outcome = "handled" =>
      /\ calls[i].replyIdx # 0
      /\ messages[calls[i].replyIdx].type = "assistant"

(***************************************************************************)
(* C23.  The demo backend answers every request in one of three ways.      *)
(* A body that is not JSON (or is the JSON null) gets status 500 with      *)
(* {error: "Failed to process request"}.  A body whose message is truthy   *)
(* (a string that is not empty, an object) gets status 200 with a          *)
(* response string and an ISO timestamp.  Every other body, whether the    *)
(* message field is absent or present with a falsy value (the empty        *)
(* string, null), gets status 400 with {error: "Message is required"}.     *)
(***************************************************************************)
ErrorAnswer(status, text) ==
  [ status |-> status,
    body   |-> [kind |-> "json",
                data |-> [type   |-> "object",
                          fields |-> "error" :> [type |-> "string", value |-> <<text>>]]] ]

\* a JSON object that has the property k
HasField(body, k) ==
  body.kind = "json" /\ body.data.type = "object" /\ k \in DOMAIN body.data.fields

HasTruthyMessage(body) ==
  /\ HasField(body, "message")
  /\ \/ body.data.fields["message"].type = "object"
     \/ /\ body.data.fields["message"].type = "string"
        /\ body.data.fields["message"].value # <<>>

\* status 200 with {response: string, timestamp: ISO string of the time t}
SuccessAnswer(answer, t) ==
  /\ answer.status = 200
  /\ answer.body.kind = "json"
  /\ answer.body.data.type = "object"
  /\ DOMAIN answer.body.data.fields = {"response", "timestamp"}
  /\ answer.body.data.fields["response"].type = "string"
  /\ answer.body.data.fields["response"].value # <<>>
  /\ answer.body.data.fields["timestamp"] =
       [type |-> "string", value |-> <<"ISO-8601:", ToString(t)>>]

C23_BackendAnswersByTruthiness ==
  \A k \in DOMAIN served :
    LET body   == served[k].request
        answer == served[k].response
    IN  CASE body.kind = "invalid" \/ body.data.type = "null" ->
               answer = ErrorAnswer(500, "Failed to process request")
          [] HasTruthyMessage(body) -> SuccessAnswer(answer, served[k].at)
          [] OTHER -> answer = ErrorAnswer(400, "Message is required")

\* the claim as written: 200 whenever the message field is present
C23_BackendAnswersByPresence ==
  \A k \in DOMAIN served :
    LET body   == served[k].request
        answer == served[k].response
    IN  CASE body.kind = "invalid" \/ body.data.type = "null" ->
               answer = ErrorAnswer(500, "Failed to process request")
          [] HasField(body, "message") -> SuccessAnswer(answer, served[k].at)
          [] OTHER -> answer = ErrorAnswer(400, "Message is required")

\* the route has answered {"message": ""} with 400 and the widget's padded
\* message with 200
C23_Witness ==
  \E k, l \in DOMAIN served :
    /\ HasField(served[k].request, "message")
    /\ served[k].request.data.fields["message"] = [type |-> "string", value |-> <<>>]
    /\ served[k].response.status = 400
    /\ HasField(served[l].request, "message")
    /\ served[l].request.data.fields["message"] =
         [type |-> "string", value |-> <<" ", "h", " ">>]
    /\ served[l].response.status = 200

(***************************************************************************)
(* C24.  A failure leaves the widget usable.  After a send has ended with  *)
(* the failure notice, isTyping is false once nothing is in flight, a send *)
(* of a draft that is not blank can be taken, and it is accepted and       *)
(* processed like any send: the user message is appended, the draft        *)
(* cleared, and the strategy the props select is started.                  *)
(***************************************************************************)
Failed == { i \in DOMAIN calls : calls[i].outcome = "failed" }

C24_FailureIsNotFatal ==
  /\ [][ (Failed # {} /\ Ran("handleSend") /\ ~IsBlank(inputValue)) =>
           /\ event'.accepted
           /\ Len(calls') = Len(calls) + 1
           /\ IsPrefix(messages, messages')
           /\ messages'[Len(messages) + 1].type = "user"
           /\ messages'[Len(messages) + 1].content = inputValue
           /\ inputValue' = <<>>
           /\ calls'[Len(calls')].strategy =
                (IF props.onSendMessage THEN "handler"
                 ELSE IF props.sampleMode THEN "sample"
                 ELSE IF props.endpoint # "" THEN "http" ELSE "none")
           /\ Len(handlerCalls') + Len(timers') + Len(requests') =
                Len(handlerCalls) + Len(timers) + Len(requests) + 1
           /\ calls'[Len(calls')].pc # "done" => isTyping' ]_vars
  /\ [] ((Failed # {} /\ InFlight = {}) => ~isTyping)
  /\ [] ((Failed # {} /\ ~IsBlank(inputValue) /\ Len(calls) < MaxSends) =>
           ENABLED (handleSend /\ event'.accepted))

\* the first send ended with the failure notice; the second, made after
\* it, has its reply
C24_Witness ==
  /\ Len(calls) = 2
  /\ calls[1].outcome = "failed"
  /\ messages[calls[1].replyIdx].content = FAILURE_NOTICE
  /\ calls[2].userIdx > calls[1].replyIdx
  /\ calls[2].outcome = "replied"
  /\ ~isTyping

(***************************************************************************)
(* C25.  No append is lost, however the sends overlap.  In every state the *)
(* user message of every invocation and the assistant message of every     *)
(* invocation that has appended one are in the log, each at a place of its *)
(* own; and once no invocation is in flight the log is the initial         *)
(* messages followed by one user message per accepted send and one         *)
(* assistant message per send of the sample or HTTP strategy or that       *)
(* failed, and nothing else.                                               *)
(***************************************************************************)
\* the sends that owe the log an assistant message
Owing ==
  { i \in DOMAIN calls :
      calls[i].strategy \in {"sample", "http"} \/ calls[i].outcome = "failed" }

\* the places of the log the invocations have written to
Places ==
  { calls[i].userIdx : i \in DOMAIN calls }
    \cup { calls[i].replyIdx : i \in { j \in DOMAIN calls : calls[j].replyIdx # 0 } }

C25_NoAppendLost ==
  /\ IsPrefix(props.initialMessages, messages)
  /\ \A i \in DOMAIN calls :
       /\ calls[i].userIdx \in DOMAIN messages
       /\ messages[calls[i].userIdx].type = "user"
       /\ messages[calls[i].userIdx].content = calls[i].text
       /\ calls[i].replyIdx # 0 =>
            /\ calls[i].replyIdx \in DOMAIN messages
            /\ messages[calls[i].replyIdx].type = "assistant"
  /\ Cardinality(Places) =
       Len(calls) + Cardinality({ i \in DOMAIN calls : calls[i].replyIdx # 0 })
  /\ Places = Len(props.initialMessages) + 1 .. Len(messages)
  /\ InFlight = {} =>
       /\ \A i \in DOMAIN calls : i \in Owing <=> calls[i].replyIdx # 0
       /\ Len(messages) =
            Len(props.initialMessages) + Len(calls) + Cardinality(Owing)
       /\ CountOfType(Appended, "user") = Len(calls)
       /\ CountOfType(Appended, "assistant") = Cardinality(Owing)

\* two sends that overlapped are both over, and the log has grown by four
C25_Witness ==
  /\ Len(calls) = 2
  /\ InFlight = {}
  /\ calls[2].userIdx < calls[1].replyIdx
  /\ calls[2].replyIdx # 0
  /\ Len(messages) = Len(props.initialMessages) + 4

(***************************************************************************)
(* C26.  The reply strategy is handed the text of the send it belongs to.  *)
(* The argument of every handler call and the message of every request     *)
(* body is the draft as it was when the send was taken, not trimmed, which *)
(* is the content of the user message of that send; and what was handed    *)
(* over stays as it is when the draft changes or further sends are made.   *)
(***************************************************************************)
\* the text a request carries in its body
Posted(entry) == entry.request.body.data.fields["message"].value

C26_StrategyGetsSentText ==
  /\ [][ (Ran("handleSend") /\ event'.accepted) =>
           /\ Len(handlerCalls') > Len(handlerCalls) =>
                handlerCalls'[Len(handlerCalls')].message = inputValue
           /\ Len(requests') > Len(requests) =>
                Posted(requests'[Len(requests')]) = inputValue
           /\ messages'[calls'[event'.call].userIdx].content = inputValue ]_vars
  /\ [][ IsPrefix(handlerCalls, handlerCalls') /\ IsPrefix(requests, requests') ]_vars
  /\ [] /\ \A k \in DOMAIN handlerCalls :
             handlerCalls[k].message =
               messages[calls[handlerCalls[k].call].userIdx].content
        /\ \A k \in DOMAIN requests :
             /\ HasField(requests[k].request.body, "message")
             /\ Posted(requests[k]) = messages[calls[requests[k].call].userIdx].content

\* a padded draft was posted; while its request is pending another draft
\* was typed and sent, and the first request still carries the padded text
C26_Witness ==
  /\ Len(requests) = 2
  /\ calls[1].pc = "awaitFetch"
  /\ Posted(requests[1]) = <<" ", "h", " ">>
  /\ Posted(requests[2]) = <<"h">>
  /\ messages[calls[1].userIdx].content = <<" ", "h", " ">>
  /\ inputValue = <<" ">>

=============================================================================
